---- MODULE Spec2Model ----
(***************************************************************************)
(* Model of the notebook the_python_shakespeare_ciphers.ipynb:             *)
(*   - the anagram index (get_anagrams, get_anagrams_from_word),           *)
(*   - the substring search (find_quotes, print_quotes),                   *)
(*   - the acquisition functions (download_text, get_uk_english_word_list),*)
(*   - the corpus filter (filter_text),                                    *)
(*   - the word lists (get_words and the cells that combine the lists).    *)
(* Characters are their code points (ord), strings are sequences of code   *)
(* points, so that sorted() orders upper-case before lower-case letters    *)
(* exactly as Python does.                                                 *)
(***************************************************************************)
EXTENDS Integers, Sequences, FiniteSets, TLC

VARIABLES
    words,          \* get_anagrams: the input sequence of words
    n,              \* get_anagrams: position of the for loop (1-based)
    anagram_dict,   \* the index: canonical key -> list of words
    query,          \* get_anagrams_from_word: the word looked up
    anagrams,       \* get_anagrams_from_word: outcome of the last lookup
    pcA,            \* position in the anagram cells
    text,           \* find_quotes / print_quotes: the text searched
    keyword,        \* find_quotes: the keyword
    i,              \* find_quotes: the local i (0-based offset, -1 = no hit)
    indices,        \* find_quotes: the list of offsets
    pre,            \* print_quotes: characters shown before the offset
    post,           \* print_quotes: characters shown from the offset on
    printed,        \* print_quotes: the lines printed
    pcQ,            \* position in the search cells
    dirExists,      \* whether the data directory exists
    fs,             \* the files of the data directory: name -> file
    corpus,         \* filter_text: the text passed in
    res,            \* outcome of the last call of a file function
    shakespearean_words,  \* the notebook global set from get_words
    uk_word_list,   \* the notebook global set from get_uk_english_word_list
    all_words,      \* the notebook global holding the combined word list
    pcW             \* the next of the word list cells to run

varsA == <<words, n, anagram_dict, query, anagrams, pcA>>
varsQ == <<text, keyword, i, indices, pre, post, printed, pcQ>>
varsF == <<dirExists, fs, corpus, res>>
varsW == <<shakespearean_words, uk_word_list, all_words, pcW>>
vars == <<varsA, varsQ, varsF, varsW>>

-----------------------------------------------------------------------------
(* Bounds                                                                  *)

MaxWordLen == 2
MaxWords == 2
MaxIndexed == 1
MaxTextLen == 4
MaxKeywordLen == 2
MaxWindow == 2
MaxFileLen == 2
MaxPieces == 3
MaxCorpusLen == 3

-----------------------------------------------------------------------------
(* Python values                                                           *)

\* outcome of a call: a returned value, a returned None, or a raised exception
Return(v) == [kind |-> "return", value |-> v]
Raise(e) == [kind |-> e, value |-> <<>>]
NotCalled == [kind |-> "not called", value |-> <<>>]

\* all sequences over S of length 0..k
SeqsUpTo(S, k) == UNION {[1..m -> S] : m \in 0..k}

\* the letters among the modelled characters: 'A'..'Z', 'a'..'z' and
\* U+0130 (capital I with dot above); U+0307 (combining dot above, 775) is a
\* mark, not a letter
AlphaChars == (65..90) \cup (97..122) \cup {304}

\* str.lower() of one character: 'A'..'Z' (65..90) map to 'a'..'z' (97..122),
\* U+0130 maps to the two characters 'i' U+0307, the rest is unchanged
lower_char(c) ==
    IF c \in 65..90 THEN <<c + 32>>
    ELSE IF c = 304 THEN <<105, 775>>
    ELSE <<c>>

\* str.lower()
RECURSIVE lower(_)
lower(s) == IF s = <<>> THEN <<>> ELSE lower_char(Head(s)) \o lower(Tail(s))

\* str.isalpha(): non-empty and every character a letter
isalpha(s) == Len(s) > 0 /\ \A j \in 1..Len(s) : s[j] \in AlphaChars

\* sorted(word): the characters in ascending code point order
Insert(c, s) ==
    LET p == Cardinality({j \in 1..Len(s) : s[j] <= c})
    IN  SubSeq(s, 1, p) \o <<c>> \o SubSeq(s, p + 1, Len(s))

RECURSIVE sorted(_)
sorted(s) == IF s = <<>> THEN <<>> ELSE Insert(Head(s), sorted(Tail(s)))

-----------------------------------------------------------------------------
(* Anagram index                                                           *)

\* letters of the modelled words: 'B', 'a', 'b'
Letters == {66, 97, 98}
Words == SeqsUpTo(Letters, MaxWordLen)
Vocabularies == SeqsUpTo(Words, MaxWords)

\* word_sorted = ''.join(sorted(word)).lower()
word_sorted(w) == lower(sorted(w))

\* the if-branch assigns a fresh list instead of appending
get_anagrams_body_overwrite(d, w) ==
    LET k == word_sorted(w)
    IN  IF k \in DOMAIN d
        THEN [d EXCEPT ![k] = <<w>>]
        ELSE (k :> <<w>>) @@ d

\* the if-branch inserts at the front instead of appending
get_anagrams_body_prepend(d, w) ==
    LET k == word_sorted(w)
    IN  IF k \in DOMAIN d
        THEN [d EXCEPT ![k] = <<w>> \o d[k]]
        ELSE (k :> <<w>>) @@ d

\* body of the for loop of get_anagrams
get_anagrams_body(d, w) ==
    LET k == word_sorted(w)
    IN  IF k \in DOMAIN d
        THEN [d EXCEPT ![k] = Append(d[k], w)]
        ELSE (k :> <<w>>) @@ d

\* the membership test is dropped: anagram_dict[word_sorted] raises KeyError
get_anagrams_from_word_unguarded(d, w) ==
    LET k == word_sorted(w)
    IN  IF k \in DOMAIN d THEN Return(d[k]) ELSE Raise("KeyError")

\* get_anagrams_from_word(anagram_dict, word)
get_anagrams_from_word(d, w) ==
    LET k == word_sorted(w)
    IN  IF k \in DOMAIN d THEN Return(d[k]) ELSE Return(<<>>)

IdleAnagram ==
    /\ words = <<>>
    /\ n = 1
    /\ anagram_dict = <<>>
    /\ query = <<>>
    /\ anagrams = NotCalled
    /\ pcA = "idle"

IdleQuotes ==
    /\ text = <<>>
    /\ keyword = <<>>
    /\ i = -1
    /\ indices = <<>>
    /\ pre = 0
    /\ post = 0
    /\ printed = <<>>
    /\ pcQ = "idle"

\* the files the notebook keeps in its data directory
RawFile == "gutenberg_complete_shakespeare_raw.txt"
UkFile == "ukenglish.txt"
FilteredFile == "complete_shakespeare.txt"
Files == {RawFile, UkFile, FilteredFile}

Absent == [exists |-> FALSE, data |-> <<>>]
File(bytes) == [exists |-> TRUE, data |-> bytes]

\* outcome of a call of a file function: what it returned or raised, whether
\* it issued a network request, what it printed, and which network or
\* extraction step failed in it
Out(f, k, v, net, msg, step) ==
    [fn |-> f, kind |-> k, value |-> v, fetch |-> net, printed |-> msg,
     failed |-> step]

NoCall == Out("", "not called", <<>>, FALSE, "", "none")

IdleWords ==
    /\ shakespearean_words = NotCalled
    /\ uk_word_list = NotCalled
    /\ all_words = NotCalled
    /\ pcW = "idle"

IdleFiles ==
    /\ dirExists = FALSE
    /\ fs = [f \in Files |-> Absent]
    /\ corpus = <<>>
    /\ res = NoCall

InitAnagram ==
    /\ IdleWords
    /\ IdleQuotes
    /\ IdleFiles
    /\ words \in Vocabularies
    /\ n = 1
    /\ anagram_dict = <<>>
    /\ query = <<>>
    /\ anagrams = NotCalled
    /\ pcA = "get_anagrams"

\* one iteration of `for word in words`
get_anagrams_loop ==
    /\ pcA = "get_anagrams"
    /\ n <= Len(words)
    /\ anagram_dict' = get_anagrams_body(anagram_dict, words[n])
    /\ n' = n + 1
    /\ UNCHANGED <<words, query, anagrams, pcA, varsQ, varsF, varsW>>

\* `return anagram_dict`
get_anagrams_return ==
    /\ pcA = "get_anagrams"
    /\ n > Len(words)
    /\ pcA' = "built"
    /\ UNCHANGED <<words, n, anagram_dict, query, anagrams, varsQ, varsF, varsW>>

\* a cell calling get_anagrams_from_word(anagram_dict, q)
lookup ==
    /\ pcA \in {"built", "looked"}
    /\ \E q \in Words :
        /\ query' = q
        /\ anagrams' = get_anagrams_from_word(anagram_dict, q)
    /\ pcA' = "looked"
    /\ UNCHANGED <<words, n, anagram_dict, varsQ, varsF, varsW>>

\* the cell `anagram_dict = get_anagrams(all_words)`
NextAnagram == get_anagrams_loop \/ get_anagrams_return

SpecAnagram == InitAnagram /\ [][NextAnagram]_vars

\* the same cell followed by the lookup cells, over a vocabulary of at most
\* MaxIndexed words
InitLookup ==
    /\ IdleWords
    /\ IdleQuotes
    /\ IdleFiles
    /\ words \in SeqsUpTo(Words, MaxIndexed)
    /\ n = 1
    /\ anagram_dict = <<>>
    /\ query = <<>>
    /\ anagrams = NotCalled
    /\ pcA = "get_anagrams"

NextLookup == get_anagrams_loop \/ get_anagrams_return \/ lookup

SpecLookup == InitLookup /\ [][NextLookup]_vars

-----------------------------------------------------------------------------
(* Properties of the anagram index                                         *)

Range(s) == {s[j] : j \in 1..Len(s)}
Count(s, c) == Cardinality({j \in 1..Len(s) : s[j] = c})
NoDup(s) == \A a, b \in 1..Len(s) : s[a] = s[b] => a = b
IndexBuilt == pcA \in {"built", "looked"}

\* the signature of the glossary: the letters of the lowercased word, sorted
CanonicalSignature(w) == sorted(lower(w))

\* a and b are made of the same letters, each the same number of times
IsPermutation(a, b) ==
    /\ Len(a) = Len(b)
    /\ \A c \in Range(lower(a)) \cup Range(lower(b)) :
          Count(lower(a), c) = Count(lower(b), c)

\* C1: a lookup of q in the index of V returns all and only the words of V
\* that are letter-permutations of q, and a lookup of a word of V contains it.
C1_AllAndOnlyPermutations ==
    pcA = "looked" =>
        /\ anagrams.kind = "return"
        /\ Range(anagrams.value) = {w \in Range(words) : IsPermutation(w, query)}
        /\ (query \in Range(words) => query \in Range(anagrams.value))

\* C2: in the index of a deduplicated V every word of V is in exactly one
\* list, exactly once, that list is the one under the word's own signature
\* (the canonical signature for a lower-case word), and the lists hold
\* nothing but words of V.
C2_EachWordInExactlyOneList ==
    (IndexBuilt /\ NoDup(words)) =>
        /\ \A w \in Range(words) :
              /\ Cardinality({k \in DOMAIN anagram_dict :
                                 w \in Range(anagram_dict[k])}) = 1
              /\ word_sorted(w) \in DOMAIN anagram_dict
              /\ Count(anagram_dict[word_sorted(w)], w) = 1
              /\ (w = lower(w) =>
                     /\ CanonicalSignature(w) \in DOMAIN anagram_dict
                     /\ w \in Range(anagram_dict[CanonicalSignature(w)]))
        /\ \A k \in DOMAIN anagram_dict :
              Range(anagram_dict[k]) \subseteq Range(words)

\* C2 witness: a deduplicated lower-case V of two anagrams has been indexed
\* into one list
C2_Witness ==
    /\ pcA = "built"
    /\ NoDup(words) /\ Len(words) = 2
    /\ \A w \in Range(words) : w = lower(w)
    /\ \E k \in DOMAIN anagram_dict : Len(anagram_dict[k]) = 2

\* C3: the signature used by get_anagrams and get_anagrams_from_word is the
\* sorted letters of the lowercased word, so a lookup of a query returns what
\* a lookup of its lowercased form returns.
C3_CaseInsensitiveSignature ==
    /\ \A j \in 1..(n - 1) :
          /\ CanonicalSignature(words[j]) \in DOMAIN anagram_dict
          /\ words[j] \in Range(anagram_dict[CanonicalSignature(words[j])])
    /\ pcA = "looked" =>
          /\ word_sorted(query) = CanonicalSignature(query)
          /\ anagrams = get_anagrams_from_word(anagram_dict, lower(query))

\* C6: every list of the index holds its words in the order of the input:
\* it is the subsequence of the words read so far that have the list's key.
C6_FirstSeenOrder ==
    \A k \in DOMAIN anagram_dict :
        anagram_dict[k] =
            SelectSeq(SubSeq(words, 1, n - 1), LAMBDA w : word_sorted(w) = k)

\* C6 witness: "ba" was read before "ab", and their list holds them in that
\* order, which is not the alphabetical one
C6_Witness ==
    /\ pcA = "built"
    /\ words = << <<98, 97>>, <<97, 98>> >>
    /\ anagram_dict[<<97, 98>>] = << <<98, 97>>, <<97, 98>> >>

\* C10: a lookup whose signature is not a key of the index returns the empty
\* list and raises nothing.
C10_AbsentKeyGivesEmptyList ==
    (pcA = "looked" /\ word_sorted(query) \notin DOMAIN anagram_dict) =>
        anagrams = Return(<<>>)

\* C10 witness: the empty string looked up in a non-empty index without the
\* empty key
C10_Witness ==
    /\ pcA = "looked"
    /\ query = <<>>
    /\ anagram_dict # <<>>
    /\ word_sorted(query) \notin DOMAIN anagram_dict
    /\ anagrams.kind = "return"

-----------------------------------------------------------------------------
(* Substring search                                                        *)

\* characters of the modelled texts: 'a', 'b'
TextChars == {97, 98}
Texts == SeqsUpTo(TextChars, MaxTextLen)
Keywords == SeqsUpTo(TextChars, MaxKeywordLen)

\* str.find(sub, start) for start >= 0: the lowest offset p >= start with
\* t[p : p+len(sub)] == sub, or -1 (0-based offsets; the empty sub is found
\* at every offset up to len(t))
find(t, sub, start) ==
    LET hits == {p \in start..(Len(t) - Len(sub)) :
                    SubSeq(t, p + 1, p + Len(sub)) = sub}
    IN  IF hits = {} THEN -1
        ELSE CHOOSE p \in hits : \A q \in hits : p <= q

\* a slice bound as Python normalises it: negative counts from the end,
\* then clipped to 0..len
SliceBound(x, len) ==
    IF x < 0 THEN (IF x + len < 0 THEN 0 ELSE x + len)
    ELSE IF x > len THEN len ELSE x

\* t[a:b]
slice(t, a, b) == SubSeq(t, SliceBound(a, Len(t)) + 1, SliceBound(b, Len(t)))

\* the search resumes after the keyword, so overlapping hits are skipped
find_quotes_next_skip(t, kw, at) == find(t, kw, at + Len(kw))

\* the search resumes at the hit itself and finds it again
find_quotes_next_same(t, kw, at) == find(t, kw, at)

\* i = text.find(keyword, i+1)
find_quotes_next(t, kw, at) == find(t, kw, at + 1)

\* print("------")
Separator == <<45, 45, 45, 45, 45, 45>>

\* the lines print_quotes prints for one offset
print_quotes_body(t, at, b, a) == <<slice(t, at - b, at + a), Separator>>

RECURSIVE print_quotes_lines(_, _, _, _)
print_quotes_lines(t, idx, b, a) ==
    IF idx = <<>> THEN <<>>
    ELSE print_quotes_body(t, Head(idx), b, a) \o print_quotes_lines(t, Tail(idx), b, a)

InitQuotes ==
    /\ IdleWords
    /\ IdleAnagram
    /\ IdleFiles
    /\ text \in Texts
    /\ keyword \in Keywords
    /\ i = -1
    /\ indices = <<>>
    /\ pre = 0
    /\ post = 0
    /\ printed = <<>>
    /\ pcQ = "find_quotes"

\* indices = []; i = text.find(keyword)
find_quotes_start ==
    /\ pcQ = "find_quotes"
    /\ indices' = <<>>
    /\ i' = find(text, keyword, 0)
    /\ pcQ' = "while"
    /\ UNCHANGED <<text, keyword, pre, post, printed, varsA, varsF, varsW>>

\* one iteration of `while i != -1`
find_quotes_loop ==
    /\ pcQ = "while"
    /\ i # -1
    /\ indices' = Append(indices, i)
    /\ i' = find_quotes_next(text, keyword, i)
    /\ UNCHANGED <<text, keyword, pre, post, printed, pcQ, varsA, varsF, varsW>>

\* `return indices`
find_quotes_return ==
    /\ pcQ = "while"
    /\ i = -1
    /\ pcQ' = "found"
    /\ UNCHANGED <<text, keyword, i, indices, pre, post, printed, varsA, varsF, varsW>>

\* print_quotes(text, indices, b, a)
print_quotes ==
    /\ pcQ \in {"found", "printed"}
    /\ \E b, a \in 0..MaxWindow :
        /\ pre' = b
        /\ post' = a
        /\ printed' = print_quotes_lines(text, indices, b, a)
    /\ pcQ' = "printed"
    /\ UNCHANGED <<text, keyword, i, indices, varsA, varsF, varsW>>

NextQuotes ==
    find_quotes_start \/ find_quotes_loop \/ find_quotes_return \/ print_quotes

SpecQuotes == InitQuotes /\ [][NextQuotes]_vars

\* a call of find_quotes runs on: each of its steps is taken when it is the
\* next statement
SpecQuotesFair ==
    /\ SpecQuotes
    /\ WF_vars(find_quotes_start)
    /\ WF_vars(find_quotes_loop)
    /\ WF_vars(find_quotes_return)

-----------------------------------------------------------------------------
(* Properties of the substring search                                      *)

\* the offsets at which kw occurs in t
Occurrences(t, kw) ==
    {p \in 0..(Len(t) - Len(kw)) :
        \A j \in 1..Len(kw) : t[p + j] = kw[j]}

Ascending(s) == \A a, b \in 1..Len(s) : a < b => s[a] < s[b]

\* C4: find_quotes returns, strictly ascending, exactly the offsets at which
\* the keyword occurs in the text, overlapping ones included, none twice;
\* while the loop runs, indices holds exactly the occurrences before i.
C4_AllOffsetsAscending ==
    /\ pcQ = "while" =>
          /\ Ascending(indices)
          /\ Range(indices) =
                {p \in Occurrences(text, keyword) : i = -1 \/ p < i}
    /\ pcQ \in {"found", "printed"} =>
          /\ Ascending(indices)
          /\ Range(indices) = Occurrences(text, keyword)
          /\ Len(indices) = Cardinality(Occurrences(text, keyword))

\* C4 witness: two overlapping occurrences have been returned
C4_Witness ==
    /\ pcQ = "found"
    /\ Len(keyword) = 2
    /\ \E j \in 1..(Len(indices) - 1) : indices[j + 1] - indices[j] < Len(keyword)

\* C12: find_quotes returns for every text and keyword; every iteration
\* resumes the search at an offset greater than the hit just recorded (or
\* finds nothing more), and the loop body runs at most len(text)+1 times.
C12_FindQuotesTerminates ==
    /\ <>(pcQ = "found")
    /\ [][find_quotes_loop => (i' = -1 \/ i' > i)]_vars
    /\ [](Len(indices) <= Len(text) + 1)

\* C12 witness: with the empty keyword the loop has run len(text)+1 times
\* and find_quotes has returned
C12_Witness ==
    /\ pcQ = "found"
    /\ keyword = <<>>
    /\ Len(text) >= 2
    /\ Len(indices) = Len(text) + 1

Max(a, b) == IF a >= b THEN a ELSE b
Min(a, b) == IF a <= b THEN a ELSE b

\* C5: for pre >= 0 and post >= len(keyword), the window printed for a hit at
\* offset p is text[max(0, p-pre) : min(len(text), p+post)] and contains the
\* keyword occurrence at p.
C5_WindowAroundHit ==
    (pcQ = "printed" /\ post >= Len(keyword)) =>
        \A j \in 1..Len(indices) :
            LET p == indices[j]
                lo == Max(0, p - pre)
                window == printed[2 * j - 1]
            IN  /\ window = SubSeq(text, lo + 1, Min(Len(text), p + post))
                /\ SubSeq(window, p - lo + 1, p - lo + Len(keyword)) = keyword
-----------------------------------------------------------------------------
(* Acquisition                                                             *)

\* bytes of the modelled remote documents: 'B', 'a', '\r', '\n'
FileBytes == {66, 97, 13, 10}
Documents == SeqsUpTo(FileBytes, MaxFileLen)

\* open(filepath).read(): text mode turns "\r\n" and "\r" into "\n"
RECURSIVE read_text(_)
read_text(b) ==
    IF b = <<>> THEN <<>>
    ELSE IF Head(b) = 13
         THEN <<10>> \o read_text(IF Len(b) >= 2 /\ b[2] = 10
                                   THEN SubSeq(b, 3, Len(b)) ELSE Tail(b))
         ELSE <<Head(b)>> \o read_text(Tail(b))

\* str.split(sep) for a one-character sep
RECURSIVE split(_, _)
split(s, sep) ==
    LET at == {j \in 1..Len(s) : s[j] = sep}
    IN  IF at = {} THEN <<s>>
        ELSE LET p == CHOOSE j \in at : \A q \in at : j <= q
             IN  <<SubSeq(s, 1, p - 1)>> \o split(SubSeq(s, p + 1, Len(s)), sep)

\* f.read().decode('cp850').split('\n'): cp850 maps the ASCII bytes modelled
\* here to the same code points
read_words(b) == split(b, 10)

\* the filter loop of get_uk_english_word_list
filter_words(ws) == SelectSeq(ws, LAMBDA w : ~(w # lower(w) \/ ~isalpha(w)))

\* the existence test is lost: the file is fetched on every call
path_exists_never(files, f) == FALSE

\* os.path.exists(filepath)
path_exists(files, f) == files[f].exists

InitAcquire ==
    /\ IdleWords
    /\ IdleAnagram
    /\ IdleQuotes
    /\ IdleFiles

\* download_text(url, "data", RawFile); urlretrieve either stores the
\* document, or fails before creating the file, or fails having stored only
\* part of the document
download_text ==
    /\ dirExists' = TRUE
    /\ IF path_exists(fs, RawFile)
       THEN /\ fs' = fs
            /\ res' = Out("download_text", "return", read_text(fs[RawFile].data),
                          FALSE, "Reading from cached file", "none")
       ELSE \E doc \in Documents, outcome \in {"stored", "refused", "short"} :
            CASE outcome = "stored" ->
                   /\ fs' = [fs EXCEPT ![RawFile] = File(doc)]
                   /\ res' = Out("download_text", "return", read_text(doc),
                                 TRUE, "Downloaded", "none")
              [] outcome = "refused" ->
                   /\ fs' = fs
                   /\ res' = Out("download_text", "None", <<>>,
                                 TRUE, "Failed to download", "urlretrieve")
              [] outcome = "short" ->
                   /\ \E m \in 0..(Len(doc) - 1) :
                         fs' = [fs EXCEPT ![RawFile] = File(SubSeq(doc, 1, m))]
                   /\ res' = Out("download_text", "None", <<>>,
                                 TRUE, "Failed to download", "urlretrieve")
    /\ UNCHANGED <<corpus, varsA, varsQ, varsW>>

\* get_uk_english_word_list("data"); the archive holds the document as
\* ukenglish.txt ("extracted"), or lacks that member ("no member"), or a step
\* fails: urlopen, response.read, or the extraction (which may already have
\* written part of the member, or all of it, before it fails)
get_uk_english_word_list_call ==
    IF path_exists(fs, UkFile)
    THEN /\ res' = Out("get_uk_english_word_list", "return",
                       filter_words(read_words(fs[UkFile].data)),
                       FALSE, "Reading from cached file", "none")
         /\ UNCHANGED <<dirExists, fs, corpus, varsA, varsQ>>
    ELSE \E doc \in Documents,
            outcome \in {"extracted", "no member", "urlopen", "read", "extract"} :
         /\ CASE outcome = "urlopen" ->
                   /\ res' = Out("get_uk_english_word_list", "URLError", <<>>,
                                 TRUE, "", "urlopen")
                   /\ UNCHANGED <<dirExists, fs>>
              [] outcome = "read" ->
                   /\ res' = Out("get_uk_english_word_list", "None", <<>>,
                                 TRUE, "Failed to download", "read")
                   /\ UNCHANGED <<dirExists, fs>>
              [] outcome = "extract" ->
                   /\ res' = Out("get_uk_english_word_list", "None", <<>>,
                                 TRUE, "Failed to extract", "extract")
                   /\ \/ UNCHANGED <<dirExists, fs>>
                      \/ /\ dirExists' = TRUE
                         /\ \E m \in 0..Len(doc) :
                               fs' = [fs EXCEPT ![UkFile] = File(SubSeq(doc, 1, m))]
              [] outcome = "no member" ->
                   /\ res' = Out("get_uk_english_word_list", "FileNotFoundError",
                                 <<>>, TRUE, "", "none")
                   /\ UNCHANGED <<dirExists, fs>>
              [] outcome = "extracted" ->
                   /\ res' = Out("get_uk_english_word_list", "return",
                                 filter_words(read_words(doc)), TRUE, "", "none")
                   /\ dirExists' = TRUE
                   /\ fs' = [fs EXCEPT ![UkFile] = File(doc)]
         /\ UNCHANGED <<corpus, varsA, varsQ>>

\* a call whose result is not bound to a notebook global
get_uk_english_word_list == get_uk_english_word_list_call /\ UNCHANGED varsW

NextAcquire == download_text \/ get_uk_english_word_list

SpecAcquire == InitAcquire /\ [][NextAcquire]_vars

-----------------------------------------------------------------------------
(* Properties of the acquisition                                           *)

\* C7: once the target file exists, a call of download_text or of
\* get_uk_english_word_list issues no network request, leaves the files as
\* they are and returns what it reads from the cached file.
C7_CachedFileNoFetch ==
    [][ /\ (res'.fn = "download_text" /\ fs[RawFile].exists) =>
              /\ ~res'.fetch
              /\ fs' = fs
              /\ res'.kind = "return"
              /\ res'.value = read_text(fs[RawFile].data)
        /\ (res'.fn = "get_uk_english_word_list" /\ fs[UkFile].exists) =>
              /\ ~res'.fetch
              /\ fs' = fs
              /\ res'.kind = "return"
              /\ res'.value = filter_words(read_words(fs[UkFile].data))
      ]_vars

\* C7 witness: with both files cached, a call has just read the word list
\* from its cached file
C7_Witness ==
    /\ fs[RawFile].exists
    /\ fs[UkFile].exists
    /\ res.fn = "get_uk_english_word_list"
    /\ res.printed = "Reading from cached file"
    /\ ~res.fetch
    /\ res.value # <<>>

\* C8: every network or extraction failure in an acquisition function is
\* caught: a diagnostic is printed and the function returns None.
C8_FailuresCaught ==
    res.failed # "none" =>
        /\ res.kind = "None"
        /\ res.printed \in {"Failed to download", "Failed to extract"}
-----------------------------------------------------------------------------
(* Corpus filter                                                           *)

\* start_tok = "WILLIAM SHAKESPEARE ***"
start_tok ==
    <<87, 73, 76, 76, 73, 65, 77, 32, 83, 72, 65, 75, 69, 83, 80, 69, 65, 82,
      69, 32, 42, 42, 42>>

\* end_tok = "*** END OF THE PROJECT GUTENBERG EBOOK"
end_tok ==
    <<42, 42, 42, 32, 69, 78, 68, 32, 79, 70, 32, 84, 72, 69, 32, 80, 82, 79,
      74, 69, 67, 84, 32, 71, 85, 84, 69, 78, 66, 69, 82, 71, 32, 69, 66, 79,
      79, 75>>

\* the modelled texts are made of at most MaxPieces of: the start token, the
\* end token, "\n", "x"
Pieces == {start_tok, end_tok, <<10>>, <<120>>}

RECURSIVE Flatten(_)
Flatten(ps) == IF ps = <<>> THEN <<>> ELSE Head(ps) \o Flatten(Tail(ps))

FilterTexts == {Flatten(ps) : ps \in SeqsUpTo(Pieces, MaxPieces)}

\* t[j] is defined for -len(t) <= j < len(t) and raises IndexError otherwise
InRange(t, j) == j >= -Len(t) /\ j < Len(t)
At(t, j) == t[(IF j < 0 THEN j + Len(t) ELSE j) + 1]

Stopped(at) == [raised |-> FALSE, at |-> at]
IndexError(at) == [raised |-> TRUE, at |-> at]

\* while text[start] == '\n': start += 1
RECURSIVE skip_newlines(_, _)
skip_newlines(t, start) ==
    IF ~InRange(t, start) THEN IndexError(start)
    ELSE IF At(t, start) = 10 THEN skip_newlines(t, start + 1)
    ELSE Stopped(start)

\* while text[end-1] == '\n': end -= 1
RECURSIVE strip_newlines(_, _)
strip_newlines(t, end) ==
    IF ~InRange(t, end - 1) THEN IndexError(end)
    ELSE IF At(t, end - 1) = 10 THEN strip_newlines(t, end - 1)
    ELSE Stopped(end)

\* filter_text past the cache test: the outcome, and the text written to the
\* filtered file when the function gets that far
filter_text_body(t) ==
    LET unexpected == [out |-> Out("filter_text", "None", <<>>, FALSE,
                                   "Unexpected text format", "none"),
                       write |-> FALSE, data |-> <<>>]
        indexerror == [out |-> Out("filter_text", "IndexError", <<>>, FALSE,
                                   "", "none"),
                       write |-> FALSE, data |-> <<>>]
        start0 == find(t, start_tok, 0)
        start == skip_newlines(t, start0 + Len(start_tok))
        end0 == find(t, end_tok, 0)
        end == strip_newlines(t, end0)
        filtered_text == slice(t, start.at, end.at)
    IN  IF start0 = -1 THEN unexpected
        ELSE IF start.raised THEN indexerror
        ELSE IF end0 = -1 THEN unexpected
        ELSE IF end.raised THEN indexerror
        ELSE [out |-> Out("filter_text", "return", filtered_text, FALSE,
                          "", "none"),
              write |-> TRUE, data |-> filtered_text]

\* the notebook calls filter_text after download_text, which creates the data
\* directory even when the download fails
InitFilter ==
    /\ IdleWords
    /\ IdleAnagram
    /\ IdleQuotes
    /\ dirExists = TRUE
    /\ fs = [f \in Files |-> Absent]
    /\ corpus = <<>>
    /\ res = NoCall

\* filter_text(t, "data", FilteredFile)
filter_text ==
    /\ \E t \in FilterTexts :
        /\ corpus' = t
        /\ IF path_exists(fs, FilteredFile)
           THEN /\ res' = Out("filter_text", "return",
                              read_text(fs[FilteredFile].data), FALSE,
                              "Reading from cached file", "none")
                /\ fs' = fs
           ELSE LET r == filter_text_body(t)
                IN  /\ res' = r.out
                    /\ fs' = IF r.write
                             THEN [fs EXCEPT ![FilteredFile] = File(r.data)]
                             ELSE fs
    /\ UNCHANGED <<dirExists, varsA, varsQ, varsW>>

NextFilter == filter_text

SpecFilter == InitFilter /\ [][NextFilter]_vars

-----------------------------------------------------------------------------
(* Properties of the corpus filter                                         *)

\* tok occurs somewhere in t
HasToken(t, tok) ==
    \E p \in 0..(Len(t) - Len(tok)) : \A j \in 1..Len(tok) : t[p + j] = tok[j]

\* C9: with no cached filtered file, a text lacking the start token or the
\* end token makes filter_text report it and return None, without raising
\* and without writing the filtered file.
C9_MissingTokenReported ==
    ( /\ res.fn = "filter_text"
      /\ res.printed # "Reading from cached file"
      /\ (~HasToken(corpus, start_tok) \/ ~HasToken(corpus, end_tok)) ) =>
        /\ res.kind = "None"
        /\ res.printed = "Unexpected text format"
        /\ ~fs[FilteredFile].exists
-----------------------------------------------------------------------------
(* Word lists                                                              *)

\* punctuation = ['.', ',', '!', '?', ';', ':', '(', ')', '[', ']', '{', '}',
\*                '"', "'"]
punctuation == <<46, 44, 33, 63, 59, 58, 40, 41, 91, 93, 123, 125, 34, 39>>

\* for p in punctuation: corpus = corpus.replace(p, '')
RECURSIVE strip_punctuation(_, _)
strip_punctuation(c, ps) ==
    IF ps = <<>> THEN c
    ELSE strip_punctuation(SelectSeq(c, LAMBDA ch : ch # Head(ps)), Tail(ps))

\* the characters str.split() splits at, among the code points below 256
Whitespace == (9..13) \cup (28..32) \cup {133, 160}

\* str.split(): the maximal runs of non-whitespace characters
RECURSIVE split_whitespace(_)
split_whitespace(s) ==
    IF s = <<>> THEN <<>>
    ELSE IF Head(s) \in Whitespace THEN split_whitespace(Tail(s))
    ELSE LET stops == {j \in 1..Len(s) : s[j] \in Whitespace}
             e == IF stops = {} THEN Len(s) + 1
                  ELSE CHOOSE j \in stops : \A q \in stops : j <= q
         IN  <<SubSeq(s, 1, e - 1)>> \o split_whitespace(SubSeq(s, e, Len(s)))

\* set(s)
set(s) == {s[j] : j \in 1..Len(s)}

\* list(S) for a set S: its elements once each, in an order the language
\* does not fix
list(S) == {o \in [1..Cardinality(S) -> S] : \A x \in S : \E j \in 1..Cardinality(S) : o[j] = x}

\* the for loop of get_words: the alphabetic words, lowercased
RECURSIVE get_words_loop(_)
get_words_loop(ws) ==
    IF ws = <<>> THEN <<>>
    ELSE (IF isalpha(Head(ws)) THEN <<lower(Head(ws))>> ELSE <<>>)
         \o get_words_loop(Tail(ws))

\* get_words(corpus): the lists it can return
get_words(c) ==
    UNION { UNION { list(set(get_words_loop(ws))) } :
            ws \in list(set(split_whitespace(strip_punctuation(c, punctuation)))) }

\* characters of the modelled corpora: 'B', 'b', ' ', '.', U+0130
CorpusChars == {66, 98, 32, 46, 304}
Corpora == SeqsUpTo(CorpusChars, MaxCorpusLen)

\* the cells run in the order of the notebook
InitWords ==
    /\ IdleAnagram
    /\ IdleQuotes
    /\ IdleFiles
    /\ shakespearean_words = NotCalled
    /\ uk_word_list = NotCalled
    /\ all_words = NotCalled
    /\ pcW = "shakespearean_words"

\* the cell `shakespearean_words = get_words(complete_shakespeare_text)`
shakespearean_words_cell ==
    /\ pcW = "shakespearean_words"
    /\ pcW' = "uk_word_list"
    /\ \E c \in Corpora :
        /\ corpus' = c
        /\ \E ws \in get_words(c) : shakespearean_words' = Return(ws)
    /\ UNCHANGED <<dirExists, fs, res, uk_word_list, all_words, varsA, varsQ>>

\* the cell `uk_word_list = get_uk_english_word_list("data")`: the global is
\* bound to the list or to None, and keeps its value when the call raises
uk_word_list_cell ==
    /\ pcW = "uk_word_list"
    /\ pcW' = "all_words"
    /\ get_uk_english_word_list_call
    /\ uk_word_list' =
          IF res'.kind = "return" THEN Return(res'.value)
          ELSE IF res'.kind = "None" THEN [kind |-> "None", value |-> <<>>]
          ELSE uk_word_list
    /\ UNCHANGED <<shakespearean_words, all_words>>

\* the cell `all_words = list(set(shakespearean_words + uk_word_list))`; with
\* a global still unbound or None the cell raises and binds nothing
all_words_cell ==
    /\ pcW = "all_words"
    /\ pcW' = "done"
    /\ shakespearean_words.kind = "return"
    /\ uk_word_list.kind = "return"
    /\ \E ws \in list(set(shakespearean_words.value \o uk_word_list.value)) :
          all_words' = Return(ws)
    /\ UNCHANGED <<shakespearean_words, uk_word_list, varsA, varsQ, varsF>>

NextWords == shakespearean_words_cell \/ uk_word_list_cell \/ all_words_cell

SpecWords == InitWords /\ [][NextWords]_vars

-----------------------------------------------------------------------------
(* Properties of the word lists                                            *)

\* w consists only of alphabetic characters and equals its lowercased form
AlphabeticLowercase(w) ==
    /\ \A j \in 1..Len(w) : w[j] \in AlphaChars
    /\ w = lower(w)

\* C11: get_words returns a list without repeated elements whose members
\* are alphabetic and lower-case; the members of the result of
\* get_uk_english_word_list are alphabetic and lower-case; all_words has no
\* repeated element and its members are alphabetic and lower-case.
C11_WordSetDedupLowerAlpha ==
    /\ shakespearean_words.kind = "return" =>
          /\ NoDup(shakespearean_words.value)
          /\ \A w \in Range(shakespearean_words.value) : AlphabeticLowercase(w)
    /\ uk_word_list.kind = "return" =>
          \A w \in Range(uk_word_list.value) : AlphabeticLowercase(w)
    /\ all_words.kind = "return" =>
          /\ NoDup(all_words.value)
          /\ \A w \in Range(all_words.value) : AlphabeticLowercase(w)
====
